---- MODULE Spec2Model ----
(***************************************************************************)
(* Retention cleanup job: a cron-driven scheduler (LimpezaAutomatica) that *)
(* starts cleanup runs (executarLimpezaAutomatica), each of which deletes  *)
(* the expired rows of one table in batches, every batch wrapped in        *)
(* executarComRetry.  Every await of the source is one step of a run, so   *)
(* runs, cron firings, manual triggers and other writers interleave as the *)
(* event loop allows.                                                      *)
(***************************************************************************)
EXTENDS Integers, Sequences, FiniteSets, TLC

\* ------------------------------------------------------------------ bounds
MaxExec     == 2   \* cleanup runs in flight at once (run slots)
MaxIniciadas == 2  \* cleanup runs started in one behaviour
MaxLinhas   == 3   \* row identifiers of the table
MaxTarefas  == 2   \* cron tasks created by iniciar() in one behaviour
MaxEscritas == 1   \* writes by other clients of the table
MaxDia      == 1   \* days the clock advances
MaxLote     == 2   \* largest configured batchSize tried
MaxRetriesCfg == 2 \* largest configured maxRetries tried
MaxTentativas == 3 \* largest maxTentativas a call of executarComRetry is given
MaxMeses    == 14  \* largest mesesAtras a call of calcularDataCorte is given

\* ---------------------------------------------------------------- constants
DelayMsPadrao == 1000  \* executarComRetry's default delayMs
DataCorte     == 3     \* the cutoff instant; rows with 1 <= ts < DataCorte are expired
Nulo          == -1    \* null

Ids      == 1..MaxLinhas
Execs    == 1..MaxExec
RequiredVars == <<"DB_USER", "DB_PASSWORD", "DB_SERVER", "DB_DATABASE", "TABELA", "COLUNA_DATA">>

VARIABLES
    tarefaAgendada,  \* this.tarefaAgendada: the cron task the scheduler holds, 0 = null
    cronAtivas,      \* cron tasks that are registered and firing
    cronCriadas,     \* number of cron tasks created so far
    estatisticas,    \* this.estatisticas
    saudePendentes,  \* deferred health checks scheduled by iniciar() and not yet run
    erroInicio,      \* the missing settings named by the error iniciar() threw last
    faltando,        \* required environment variables that are absent
    configuracao,    \* batchSize and maxRetries of configuracao
    agora,           \* the clock, in days
    tabela,          \* the table: id -> timestamp, 0 = no such row
    escritas,        \* writes done by other clients
    exec,            \* the cleanup runs: one record per run slot
    iniciadas,       \* cleanup runs started so far
    rt,              \* a call of executarComRetry on its own, with its inputs
    processo,        \* the process: vivo, or encerrado once process.exit ran
    dc               \* calls of calcularDataCorte on their own, with their inputs

vars == <<tarefaAgendada, cronAtivas, cronCriadas, estatisticas, saudePendentes,
          erroInicio, faltando, configuracao, agora, tabela, escritas, exec, iniciadas, rt,
          processo, dc>>

\* ------------------------------------------------------------------ helpers
Min(a, b) == IF a < b THEN a ELSE b

RECURSIVE Pow2(_)
Pow2(n) == IF n <= 0 THEN 1 ELSE 2 * Pow2(n - 1)

RECURSIVE Soma(_)
Soma(s) == IF s = <<>> THEN 0 ELSE Head(s) + Soma(Tail(s))

\* rows the predicate "coluna < @dataCorte" matches
Expirados(tab) == {i \in Ids : tab[i] >= 1 /\ tab[i] < DataCorte}

\* SELECT TOP (n) id ... WHERE coluna < @dataCorte ORDER BY coluna ASC:
\* every result the store may return (ties are ordered as the store likes)
SelecoesSemOrdem(tab, n) ==
    {S \in SUBSET Expirados(tab) :
        Cardinality(S) = Min(n, Cardinality(Expirados(tab)))}

Selecoes(tab, n) ==
    {S \in SUBSET Expirados(tab) :
        /\ Cardinality(S) = Min(n, Cardinality(Expirados(tab)))
        /\ \A a \in S : \A b \in Expirados(tab) \ S : tab[a] <= tab[b]}

\* DELETE ... WHERE id IN (ids): the table afterwards and rowsAffected
AposDeletePorPredicado(tab, ids) ==
    [i \in Ids |-> IF tab[i] >= 1 /\ tab[i] < DataCorte THEN 0 ELSE tab[i]]

AposDelete(tab, ids) == [i \in Ids |-> IF i \in ids THEN 0 ELSE tab[i]]
RowsAffected(tab, ids) == Cardinality({i \in ids : tab[i] # 0})

\* the latest timestamp among `antes` and the rows of `ids` in the table
MaisNovo(tab, ids, antes) ==
    LET ts == {tab[i] : i \in ids} \cup {antes}
    IN CHOOSE m \in ts : \A t \in ts : t <= m

\* validarVariaveisAmbiente: requiredVars.filter(absent), in requiredVars' order
MissingSoTabelaEColuna(falt) ==
    SelectSeq(RequiredVars, LAMBDA v : v \in falt /\ v \in {"TABELA", "COLUNA_DATA"})

Missing(falt) == SelectSeq(RequiredVars, LAMBDA v : v \in falt)

\* calcularProximaExecucao: tomorrow at 10:00
ProximaExecucao(dia) == dia + 1

\* --------------------------------------------------------- calcularDataCorte
\* A Date in local time: ano, mes (0 = January .. 11 = December), dia (1..31)
\* and ms, the milliseconds since midnight.
Bissexto(ano) == (ano % 4 = 0 /\ ano % 100 # 0) \/ ano % 400 = 0

DiasNoMes(ano, mes) ==
    IF mes = 1 THEN (IF Bissexto(ano) THEN 29 ELSE 28)
    ELSE IF mes \in {3, 5, 8, 10} THEN 30 ELSE 31

\* what Date does with a day past the end of its month: it rolls over into
\* the months that follow
RECURSIVE Rolar(_)
Rolar(d) ==
    IF d.dia > DiasNoMes(d.ano, d.mes)
    THEN Rolar([d EXCEPT !.dia = @ - DiasNoMes(d.ano, d.mes),
                         !.mes = (d.mes + 1) % 12,
                         !.ano = IF d.mes = 11 THEN @ + 1 ELSE @])
    ELSE d

\* Date.prototype.setMonth(mes): mes may be negative or past 11; day and time
\* of day are kept, and the day rolls over if the month is too short for it
SetMonth(d, mes) ==
    LET t == d.ano * 12 + mes
    IN Rolar([d EXCEPT !.ano = t \div 12, !.mes = t % 12])

\* Date.prototype.setDate(dia), line 54
SetDateMantem(d, dia) == d

SetDate(d, dia) == Rolar([d EXCEPT !.dia = dia])

\* Date.prototype.setHours(h, min, s, ms), line 55
SetHours(d, h, min, seg, ms) == [d EXCEPT !.ms = ((h * 60 + min) * 60 + seg) * 1000 + ms]

\* lines 48-58, with `agoraD` for new Date()
CalcularDataCorte(agoraD, mesesAtras) ==
    SetHours(SetDate(SetMonth(agoraD, agoraD.mes - mesesAtras), 1), 0, 0, 0, 0)

\* --------------------------------------------------------- executarComRetry
\* The state of one call: the loop counter, and what the call did so far.
\* estado: operacao (awaiting operacao()), espera (awaiting the backoff timer),
\* retornou (returned operacao's value), lancou (threw)
RetryInicio ==
    [tentativa |-> 1, estado |-> "operacao", erro |-> "nenhum",
     chamadas |-> 1,    \* invocations of operacao
     delays |-> <<>>]   \* the backoff delays waited, in order

\* if (tentativa === maxTentativas) throw error
DepoisDaUltima(tentativa, maxTentativas) == tentativa > maxTentativas

UltimaTentativa(tentativa, maxTentativas) == tentativa = maxTentativas

\* delayMs * Math.pow(2, tentativa - 1)
BackoffDobrado(delayMs, tentativa) == delayMs * Pow2(tentativa)

BackoffDelay(delayMs, tentativa) == delayMs * Pow2(tentativa - 1)

\* return await operacao(): the operation succeeded
RetrySucesso(c) == [c EXCEPT !.estado = "retornou"]

\* the catch block: operacao() threw `err` on attempt c.tentativa
RetryFalhou(c, err, maxTentativas, delayMs) ==
    IF UltimaTentativa(c.tentativa, maxTentativas)
    THEN [c EXCEPT !.estado = "lancou", !.erro = err]
    ELSE [c EXCEPT !.estado = "espera",
                   !.delays = Append(@, BackoffDelay(delayMs, c.tentativa))]

\* the backoff timer fired: tentativa++ and operacao() is invoked again
RetryAcordou(c) ==
    [c EXCEPT !.tentativa = @ + 1, !.chamadas = @ + 1, !.estado = "operacao"]

\* ------------------------------------------------------------- run records
ExecLivre ==
    [pc |-> "livre",          \* livre, connect, count, select, delete, backoff,
                              \* intervalo, close, fim
     origem |-> "nenhuma",    \* tarefa (cron firing) or manual
     pool |-> FALSE,          \* the store handle is held (pool # null)
     total |-> 0,             \* totalRegistrosAntigos
     totalDeletados |-> 0,
     retry |-> RetryInicio,   \* the executarComRetry call of the current batch
     ids |-> {},              \* the identifiers the current attempt selected
     sucesso |-> "indefinido",\* resultado.sucesso: indefinido, true, false
     erro |-> "nenhum",       \* resultado.erro
     resTotal |-> Nulo,       \* resultado.totalDeletados
     resTempo |-> Nulo,       \* resultado.tempoExecucao
     inicio |-> 0,            \* inicioExecucao
     \* history of the run, read by the properties only
     fechamentos |-> 0,       \* pool.close() calls
     nSelect |-> 0,           \* select-ids queries issued
     lotes |-> <<>>,          \* rowsAffected of each delete that succeeded
     closeFalhou |-> FALSE,   \* pool.close() threw
     houveFalha |-> FALSE,    \* a store call of this run failed
     ultimoErro |-> "nenhum", \* the last error raised inside the run
     perdidas |-> 0,          \* rows removed by deletes that reported failure
     maisNovoApagado |-> 0,   \* the latest timestamp among the rows the run removed
     interferido |-> FALSE,   \* the table was changed by someone else meanwhile
     aposSucesso |-> FALSE,   \* the run started with no run in flight, in the slot
                              \* of a run that had returned sucesso = true
     escritaNoLote |-> FALSE] \* another client wrote between a select of this run
                              \* and the delete of what it selected

EmVoo(e) == e.pc \notin {"livre", "fim"}

EstatisticasIniciais ==
    [execucoes |-> 0, sucessos |-> 0, falhas |-> 0,
     ultimaExecucao |-> Nulo, proximaExecucao |-> Nulo]

\* ------------------------------------------------------------------- Init
\* The tables a behaviour starts from: rows are interchangeable, so the
\* timestamps are listed in ascending order with the absent rows last.
Ordenada(tab) ==
    \A i \in Ids : \A j \in Ids :
        i < j => (tab[i] # 0 /\ (tab[j] = 0 \/ tab[i] <= tab[j])) \/ (tab[i] = 0 /\ tab[j] = 0)

TabelasIniciais == {tab \in [Ids -> 0..DataCorte] : Ordenada(tab)}

\* The environments a behaviour starts from: complete, or with settings absent
Ambientes == {{}, {"TABELA"}, {"DB_USER", "COLUNA_DATA"}}

Configuracoes == [batchSize : 1..MaxLote, maxRetries : 1..MaxRetriesCfg]

\* a scheduler as its constructor leaves it, lines 283-292
Construido ==
    /\ tarefaAgendada = 0
    /\ cronAtivas = {}
    /\ cronCriadas = 0
    /\ estatisticas = EstatisticasIniciais
    /\ saudePendentes = 0
    /\ erroInicio = <<>>

\* no call of executarComRetry on its own is under way
RtParado ==
    [c |-> [RetryInicio EXCEPT !.estado = "parado"], maxTentativas |-> 0, delayMs |-> 0,
     roteiro |-> <<>>, retorno |-> Nulo]

\* no call of calcularDataCorte on its own is under way
DataNula == [ano |-> 0, mes |-> 0, dia |-> 0, ms |-> 0]

DcParado == [agora |-> DataNula, mesesAtras |-> Nulo, dataCorte |-> DataNula,
             seguinte |-> DataNula]

\* The whole job: a constructed scheduler over a table of two expired rows
\* of different age and fresh ones, deleted one row a batch with one retry.
Init ==
    /\ Construido
    /\ faltando \in Ambientes
    /\ configuracao = [batchSize |-> 1, maxRetries |-> 2]
    /\ agora = 0
    /\ tabela = [i \in Ids |-> Min(i, DataCorte)]
    /\ escritas = 0
    /\ exec = [r \in Execs |-> ExecLivre]
    /\ iniciadas = 0
    /\ rt = RtParado
    /\ processo = "vivo"
    /\ dc = DcParado

\* ------------------------------------------- executarLimpezaAutomatica
\* The caller's continuation once executarLimpezaAutomatica has returned:
\* executarTarefa lines 349-358; executarManual only hands the result on.
AposTarefaSemFalhas(est, sucesso, dia) ==
    [est EXCEPT !.sucessos = IF sucesso = "true" THEN @ + 1 ELSE @,
                !.proximaExecucao = ProximaExecucao(dia)]

AposTarefa(est, sucesso, dia) ==
    [est EXCEPT !.sucessos = IF sucesso = "true" THEN @ + 1 ELSE @,
                !.falhas = IF sucesso = "true" THEN @ ELSE @ + 1,
                !.proximaExecucao = ProximaExecucao(dia)]

AoRetornar(est, e, dia) ==
    IF e.origem = "tarefa" THEN AposTarefa(est, e.sucesso, dia) ELSE est

\* Math.round((fimExecucao - inicioExecucao) / 1000), in units of the clock
TempoExecucao(inicio, fim) == fim - inicio

\* the catch block, lines 201-212
CapturarSemMensagem(e, err) ==
    [e EXCEPT !.sucesso = "false", !.resTempo = TempoExecucao(e.inicio, agora)]

Capturar(e, err) ==
    [e EXCEPT !.sucesso = "false", !.erro = err,
              !.resTempo = TempoExecucao(e.inicio, agora)]

\* the success return after the batch loop, lines 187-199
Sucesso(e) ==
    [e EXCEPT !.sucesso = "true", !.resTotal = e.totalDeletados,
              !.resTempo = TempoExecucao(e.inicio, agora)]

\* line 116: nothing to clean
NuncaSemRegistros(total) == FALSE

SemRegistros(total) == total = 0

\* the early return of line 118
SucessoImediato(e) == [e EXCEPT !.sucesso = "true", !.resTotal = 0, !.resTempo = 0]

\* finally, line 214: with a handle, pool.close() is awaited; with none the
\* run returns to its caller at once
FechaSoNoSucesso(e) == e.pool /\ e.sucesso = "true"

TemPool(e) == e.pool

Finalmente(ex, r, e, est) ==
    IF TemPool(e)
    THEN /\ exec' = [ex EXCEPT ![r] = [e EXCEPT !.pc = "close"]]
         /\ estatisticas' = est
    ELSE /\ exec' = [ex EXCEPT ![r] = [e EXCEPT !.pc = "fim"]]
         /\ estatisticas' = AoRetornar(est, e, agora)

\* a store call of run r failed with `err`
Falhou(e, err) == [e EXCEPT !.houveFalha = TRUE, !.ultimoErro = err]

\* someone other than run `autor` changed the table
Interferir(ex, autor) ==
    [r \in Execs |-> IF r # autor /\ EmVoo(ex[r])
                     THEN [ex[r] EXCEPT !.interferido = TRUE] ELSE ex[r]]

\* another client of the store changed the table
OutroEscreveu(ex) ==
    [r \in Execs |-> IF ex[r].pc = "delete"
                     THEN [Interferir(ex, 0)[r] EXCEPT !.escritaNoLote = TRUE]
                     ELSE Interferir(ex, 0)[r]]

\* the run slots no run in flight occupies, and the one a new run takes
Livres == {r \in Execs : ~EmVoo(exec[r])}
Proximo == CHOOSE r \in Livres : \A q \in Livres : r <= q

\* executarTarefa lines 342-343
AoDisparar(est, dia) ==
    [est EXCEPT !.execucoes = @ + 1, !.ultimaExecucao = dia]

\* what a trigger does to the statistics before the run starts
AoIniciarExecucao(est, origem, dia) ==
    IF origem = "tarefa" THEN AoDisparar(est, dia) ELSE est

\* lines 84-102: the synchronous start of a run, up to await sql.connect.
\* sanitizarNomeTabela(undefined) throws a TypeError inside the try.
IniciarExecucao(origem) ==
    /\ iniciadas < MaxIniciadas
    /\ Livres # {}
    /\ iniciadas' = iniciadas + 1
    /\ LET r == Proximo
           e == [ExecLivre EXCEPT
                    !.origem = origem, !.inicio = agora,
                    !.aposSucesso = /\ \A q \in Execs : ~EmVoo(exec[q])
                                    /\ exec[r].pc = "fim" /\ exec[r].sucesso = "true"]
           est == AoIniciarExecucao(estatisticas, origem, agora)
       IN IF faltando \cap {"TABELA", "COLUNA_DATA"} # {}
          THEN Finalmente(exec, r, Capturar([e EXCEPT !.ultimoErro = "TypeError"], "TypeError"), est)
          ELSE /\ exec' = [exec EXCEPT ![r] = [e EXCEPT !.pc = "connect"]]
               /\ estatisticas' = est
    /\ UNCHANGED <<tarefaAgendada, cronAtivas, cronCriadas, saudePendentes, erroInicio,
                   faltando, configuracao, agora, tabela, escritas, rt, processo, dc>>

OutrasDoExec == <<tarefaAgendada, cronAtivas, cronCriadas, saudePendentes, erroInicio,
                  faltando, configuracao, agora, escritas, iniciadas, rt, processo, dc>>

\* line 102: sql.connect resolved
ConnectOk(r) ==
    /\ exec[r].pc = "connect"
    /\ exec' = [exec EXCEPT ![r] = [@ EXCEPT !.pool = TRUE, !.pc = "count"]]
    /\ UNCHANGED <<estatisticas, tabela, OutrasDoExec>>

\* line 102: sql.connect rejected; pool stays null
ConnectFalha(r) ==
    /\ exec[r].pc = "connect"
    /\ Finalmente(exec, r, Capturar(Falhou(exec[r], "ConnectionError"), "ConnectionError"),
                  estatisticas)
    /\ UNCHANGED <<tabela, OutrasDoExec>>

\* a new iteration of while (true): executarComRetry is called and its
\* first attempt issues the select of lines 131-138
NovoLote(e) ==
    [e EXCEPT !.pc = "select", !.retry = RetryInicio, !.ids = {}, !.nSelect = @ + 1]

\* lines 164-184: the loop body once the batch returned `deletados`;
\* pc "sair" stands for break
AposLoteParaNoLoteCheio(e, deletados, batchSize) ==
    IF deletados = 0
    THEN [e EXCEPT !.pc = "sair"]
    ELSE [e EXCEPT !.totalDeletados = @ + deletados, !.pc = "sair"]

AposLoteSemSaidaNoZero(e, deletados, batchSize) ==
    IF deletados = 0
    THEN [e EXCEPT !.pc = "intervalo", !.nSelect = @ - 1]
    ELSE LET f == [e EXCEPT !.totalDeletados = @ + deletados]
         IN IF deletados < batchSize
            THEN [f EXCEPT !.pc = "sair"]
            ELSE [f EXCEPT !.pc = "intervalo"]

AposLote(e, deletados, batchSize) ==
    IF deletados = 0
    THEN [e EXCEPT !.pc = "sair"]
    ELSE LET f == [e EXCEPT !.totalDeletados = @ + deletados]
         IN IF deletados < batchSize
            THEN [f EXCEPT !.pc = "sair"]
            ELSE IF f.totalDeletados < f.total
                 THEN [f EXCEPT !.pc = "intervalo"]
                 ELSE NovoLote(f)

\* the run goes on after a batch: out of the loop to the success return,
\* or to the next await
Seguir(ex, r, e) ==
    IF e.pc = "sair"
    THEN Finalmente(ex, r, Sucesso(e), estatisticas)
    ELSE /\ exec' = [ex EXCEPT ![r] = e]
         /\ UNCHANGED estatisticas

\* lines 106-119: the count query resolved
CountOk(r) ==
    /\ exec[r].pc = "count"
    /\ LET e == [exec[r] EXCEPT !.total = Cardinality(Expirados(tabela))]
       IN IF SemRegistros(e.total)
          THEN Finalmente(exec, r, SucessoImediato(e), estatisticas)
          ELSE /\ exec' = [exec EXCEPT ![r] = NovoLote(e)]
               /\ UNCHANGED estatisticas
    /\ UNCHANGED <<tabela, OutrasDoExec>>

\* lines 106-112: the count query rejected
CountFalha(r) ==
    /\ exec[r].pc = "count"
    /\ Finalmente(exec, r, Capturar(Falhou(exec[r], "CountError"), "CountError"), estatisticas)
    /\ UNCHANGED <<tabela, OutrasDoExec>>

\* the operation of the batch threw `err`: executarComRetry's catch block,
\* then the run's own catch when the retries are exhausted
FalhaNoLote(ex, r, e, err) ==
    LET c == RetryFalhou(e.retry, err, configuracao.maxRetries, DelayMsPadrao)
        f == [Falhou(e, err) EXCEPT !.retry = c, !.ids = {}]
    IN IF c.estado = "lancou"
       THEN Finalmente(ex, r, Capturar(f, c.erro), estatisticas)
       ELSE /\ exec' = [ex EXCEPT ![r] = [f EXCEPT !.pc = "backoff"]]
            /\ UNCHANGED estatisticas

\* lines 131-144: the select resolved with the identifiers S
SelectOk(r) ==
    /\ exec[r].pc = "select"
    /\ \E S \in Selecoes(tabela, configuracao.batchSize) :
          IF S = {}
          THEN Seguir(exec, r, AposLote([exec[r] EXCEPT !.retry = RetrySucesso(@)], 0,
                                       configuracao.batchSize))
          ELSE /\ exec' = [exec EXCEPT ![r] = [@ EXCEPT !.ids = S, !.pc = "delete"]]
               /\ UNCHANGED estatisticas
    /\ UNCHANGED <<tabela, OutrasDoExec>>

\* lines 131-138: the select rejected
SelectFalha(r) ==
    /\ exec[r].pc = "select"
    /\ FalhaNoLote(exec, r, exec[r], "SelectError")
    /\ UNCHANGED <<tabela, OutrasDoExec>>

\* lines 153-161: the delete resolved; deletados = rowsAffected[0] || 0
DeleteOk(r) ==
    /\ exec[r].pc = "delete"
    /\ LET e == exec[r]
           deletados == RowsAffected(tabela, e.ids)
           f == [e EXCEPT !.retry = RetrySucesso(@), !.lotes = Append(@, deletados),
                          !.maisNovoApagado = MaisNovo(tabela, e.ids, @)]
           ex == IF deletados > 0 THEN Interferir(exec, r) ELSE exec
       IN /\ tabela' = AposDelete(tabela, e.ids)
          /\ Seguir(ex, r, AposLote(f, deletados, configuracao.batchSize))
    /\ UNCHANGED OutrasDoExec

\* lines 153-156: the delete rejected; the store may have removed the rows
\* all the same (a request timeout after the statement ran) or none
DeleteFalha(r) ==
    /\ exec[r].pc = "delete"
    /\ \E removeu \in BOOLEAN :
          LET e == exec[r]
              n == IF removeu THEN RowsAffected(tabela, e.ids) ELSE 0
              f == [e EXCEPT !.perdidas = @ + n,
                             !.maisNovoApagado = IF removeu THEN MaisNovo(tabela, e.ids, @)
                                                 ELSE @]
              ex == IF n > 0 THEN Interferir(exec, r) ELSE exec
          IN /\ removeu => n > 0
             /\ tabela' = IF removeu THEN AposDelete(tabela, e.ids) ELSE tabela
             /\ FalhaNoLote(ex, r, f, "DeleteError")
    /\ UNCHANGED OutrasDoExec

\* the loop of executarComRetry invokes the operation again: the batch starts
\* over with its select, lines 131-138
ReinvocarSoDelete(e) ==
    [e EXCEPT !.retry = RetryAcordou(@), !.pc = "delete"]

Reinvocar(e) ==
    [e EXCEPT !.retry = RetryAcordou(@), !.pc = "select", !.nSelect = @ + 1]

\* line 78: the backoff timer fired
BackoffFim(r) ==
    /\ exec[r].pc = "backoff"
    /\ exec' = [exec EXCEPT ![r] = Reinvocar(@)]
    /\ UNCHANGED <<estatisticas, tabela, OutrasDoExec>>

\* line 183: the inter-batch timer fired
IntervaloFim(r) ==
    /\ exec[r].pc = "intervalo"
    /\ exec' = [exec EXCEPT ![r] = NovoLote(@)]
    /\ UNCHANGED <<estatisticas, tabela, OutrasDoExec>>

\* lines 214-221: pool.close() settled, resolved or rejected (the rejection
\* is logged only); the run returns to its caller
AposClose(e, falhou) ==
    [e EXCEPT !.fechamentos = @ + 1, !.closeFalhou = falhou, !.pc = "fim"]

Fechar(r) ==
    /\ exec[r].pc = "close"
    /\ \E falhou \in BOOLEAN :
          LET e == AposClose(exec[r], falhou)
          IN /\ exec' = [exec EXCEPT ![r] = e]
             /\ estatisticas' = AoRetornar(estatisticas, e, agora)
    /\ UNCHANGED <<tabela, OutrasDoExec>>

\* ------------------------------------------------------------- the scheduler
OutrasDoAgendador == <<faltando, configuracao, agora, tabela, escritas, exec, iniciadas, rt,
                       processo, dc>>

\* iniciar(), lines 295-329.  validarVariaveisAmbiente throws when a required
\* variable is absent; otherwise a new cron task is scheduled and kept in
\* tarefaAgendada, whatever tarefaAgendada held before.
NovaTarefa == cronCriadas + 1

AtivasAposIniciar(ativas, nova) == ativas \cup {nova}

Iniciar ==
    IF Missing(faltando) # <<>>
    THEN /\ erroInicio' = Missing(faltando)
         /\ UNCHANGED <<tarefaAgendada, cronAtivas, cronCriadas, estatisticas,
                        saudePendentes, OutrasDoAgendador>>
    ELSE /\ cronCriadas < MaxTarefas
         /\ cronCriadas' = NovaTarefa
         /\ cronAtivas' = AtivasAposIniciar(cronAtivas, NovaTarefa)
         /\ tarefaAgendada' = NovaTarefa
         /\ estatisticas' = [estatisticas EXCEPT !.proximaExecucao = ProximaExecucao(agora)]
         /\ saudePendentes' = saudePendentes + 1
         /\ UNCHANGED <<erroInicio, OutrasDoAgendador>>

\* parar(), lines 332-338
PararTarefa ==
    IF tarefaAgendada # 0
    THEN /\ cronAtivas' = cronAtivas \ {tarefaAgendada}
         /\ tarefaAgendada' = 0
    ELSE UNCHANGED <<cronAtivas, tarefaAgendada>>

Parar ==
    /\ PararTarefa
    /\ UNCHANGED <<cronCriadas, estatisticas, saudePendentes, erroInicio, OutrasDoAgendador>>

\* a registered cron task fires its callback, lines 307-309: executarTarefa
Disparo(t) ==
    /\ t \in cronAtivas
    /\ IniciarExecucao("tarefa")

\* executarManual(), lines 384-387
ExecutarManual == IniciarExecucao("manual")

\* the deferred health check of line 323 runs: verificarSaude reads the
\* table through a connection of its own and changes nothing
VerificarSaudeInicial ==
    /\ saudePendentes > 0
    /\ saudePendentes' = saudePendentes - 1
    /\ UNCHANGED <<tarefaAgendada, cronAtivas, cronCriadas, estatisticas, erroInicio,
                   OutrasDoAgendador>>

\* ------------------------------------------------------------ environment
\* another client of the store inserts a row
Inserir ==
    /\ escritas < MaxEscritas
    /\ \E i \in Ids : \E ts \in 1..DataCorte :
          /\ tabela[i] = 0
          /\ tabela' = [tabela EXCEPT ![i] = ts]
    /\ escritas' = escritas + 1
    /\ exec' = OutroEscreveu(exec)
    /\ UNCHANGED <<tarefaAgendada, cronAtivas, cronCriadas, estatisticas, saudePendentes,
                   erroInicio, faltando, configuracao, agora, iniciadas, rt, processo, dc>>

\* another client of the store updates the timestamp of a row
Atualizar ==
    /\ escritas < MaxEscritas
    /\ \E i \in Ids : \E ts \in 1..DataCorte :
          /\ tabela[i] \notin {0, ts}
          /\ tabela' = [tabela EXCEPT ![i] = ts]
    /\ escritas' = escritas + 1
    /\ exec' = OutroEscreveu(exec)
    /\ UNCHANGED <<tarefaAgendada, cronAtivas, cronCriadas, estatisticas, saudePendentes,
                   erroInicio, faltando, configuracao, agora, iniciadas, rt, processo, dc>>

\* a day passes
Tick ==
    /\ agora < MaxDia
    /\ agora' = agora + 1
    /\ UNCHANGED <<tarefaAgendada, cronAtivas, cronCriadas, estatisticas, saudePendentes,
                   erroInicio, faltando, configuracao, tabela, escritas, exec, iniciadas, rt,
                   processo, dc>>

Next ==
    \/ Iniciar
    \/ Parar
    \/ \E t \in 1..MaxTarefas : Disparo(t)
    \/ ExecutarManual
    \/ VerificarSaudeInicial
    \/ \E r \in Execs : ConnectOk(r)
    \/ \E r \in Execs : ConnectFalha(r)
    \/ \E r \in Execs : CountOk(r)
    \/ \E r \in Execs : CountFalha(r)
    \/ \E r \in Execs : SelectOk(r)
    \/ \E r \in Execs : SelectFalha(r)
    \/ \E r \in Execs : DeleteOk(r)
    \/ \E r \in Execs : DeleteFalha(r)
    \/ \E r \in Execs : BackoffFim(r)
    \/ \E r \in Execs : IntervaloFim(r)
    \/ \E r \in Execs : Fechar(r)

Spec == Init /\ [][Next]_vars

\* ------------------------------------------------- runs one at a time
\* The scheduler after the start-up block of lines 407-412 (iniciar() done and
\* its health check run) when the environment is complete, a constructed one
\* otherwise; any table and configuration; triggers arrive only when no run
\* is in flight.
Iniciado ==
    /\ tarefaAgendada = 1
    /\ cronAtivas = {1}
    /\ cronCriadas = 1
    /\ estatisticas = [EstatisticasIniciais EXCEPT !.proximaExecucao = ProximaExecucao(0)]
    /\ saudePendentes = 0
    /\ erroInicio = <<>>

InitExec ==
    /\ faltando \in {{}, {"TABELA"}}
    /\ IF faltando = {} THEN Iniciado ELSE Construido
    /\ configuracao \in Configuracoes
    /\ agora = 0
    /\ tabela \in TabelasIniciais
    /\ escritas = 0
    /\ exec = [r \in Execs |-> ExecLivre]
    /\ iniciadas = 0
    /\ rt = RtParado
    /\ processo = "vivo"
    /\ dc = DcParado

Sozinho == \A r \in Execs : ~EmVoo(exec[r])

DisparoSozinho == Sozinho /\ \E t \in 1..MaxTarefas : Disparo(t)

ManualSozinho == Sozinho /\ ExecutarManual

NextExec ==
    \/ DisparoSozinho
    \/ ManualSozinho
    \/ \E r \in Execs : ConnectOk(r)
    \/ \E r \in Execs : ConnectFalha(r)
    \/ \E r \in Execs : CountOk(r)
    \/ \E r \in Execs : CountFalha(r)
    \/ \E r \in Execs : SelectOk(r)
    \/ \E r \in Execs : SelectFalha(r)
    \/ \E r \in Execs : DeleteOk(r)
    \/ \E r \in Execs : DeleteFalha(r)
    \/ \E r \in Execs : BackoffFim(r)
    \/ \E r \in Execs : IntervaloFim(r)
    \/ \E r \in Execs : Fechar(r)

SpecExec == InitExec /\ [][NextExec]_vars

\* ------------------------------------------- executarComRetry on its own
\* A call with maxTentativas, delayMs and an operation that throws the errors
\* of `roteiro` on its first invocations and succeeds on the next one,
\* returning the number of that invocation.
Erros == {"SelectError", "DeleteError"}

Roteiros == UNION {[1..n -> Erros] : n \in 0..MaxTentativas}

InitRetry ==
    /\ Construido
    /\ faltando = {}
    /\ configuracao = [batchSize |-> 1, maxRetries |-> 1]
    /\ agora = 0
    /\ tabela = [i \in Ids |-> 0]
    /\ escritas = 0
    /\ exec = [r \in Execs |-> ExecLivre]
    /\ iniciadas = 0
    /\ \E m \in 1..MaxTentativas : \E d \in {1, 3, DelayMsPadrao} : \E s \in Roteiros :
          rt = [c |-> RetryInicio, maxTentativas |-> m, delayMs |-> d, roteiro |-> s,
                retorno |-> Nulo]
    /\ processo = "vivo"
    /\ dc = DcParado

OutrasDoRetry == <<tarefaAgendada, cronAtivas, cronCriadas, estatisticas, saudePendentes,
                   erroInicio, faltando, configuracao, agora, tabela, escritas, exec,
                   iniciadas, processo, dc>>

\* line 69: operacao() resolved
OperacaoOk ==
    /\ rt.c.estado = "operacao"
    /\ rt.c.chamadas > Len(rt.roteiro)
    /\ rt' = [rt EXCEPT !.c = RetrySucesso(@), !.retorno = rt.c.chamadas]
    /\ UNCHANGED OutrasDoRetry

\* lines 70-78: operacao() rejected
OperacaoFalha ==
    /\ rt.c.estado = "operacao"
    /\ rt.c.chamadas <= Len(rt.roteiro)
    /\ rt' = [rt EXCEPT !.c = RetryFalhou(@, rt.roteiro[rt.c.chamadas], rt.maxTentativas,
                                          rt.delayMs)]
    /\ UNCHANGED OutrasDoRetry

\* line 78: the backoff timer fired
Acordar ==
    /\ rt.c.estado = "espera"
    /\ rt' = [rt EXCEPT !.c = RetryAcordou(@)]
    /\ UNCHANGED OutrasDoRetry

NextRetry == OperacaoOk \/ OperacaoFalha \/ Acordar

SpecRetry == InitRetry /\ [][NextRetry]_vars

\* ------------------------------------------------ the process and its signals
\* The job as the start-up block of lines 407-412 leaves it, with firings and
\* manual triggers that may overlap, until a termination signal arrives; over
\* one expired row with a retry, or two expired rows of different age without.
Vivo == processo = "vivo"

\* process.exit(0), lines 397 and 403: the process ends at once; whatever its
\* runs were awaiting is abandoned and no callback runs any more
ProcessExit == "encerrado"

\* the SIGINT / SIGTERM handlers, lines 394-404: parar(), then process.exit(0)
Sinal ==
    /\ Vivo
    /\ PararTarefa
    /\ processo' = ProcessExit
    /\ UNCHANGED <<cronCriadas, estatisticas, saudePendentes, erroInicio, faltando,
                   configuracao, agora, tabela, escritas, exec, iniciadas, rt, dc>>

InitProcesso ==
    /\ Iniciado
    /\ faltando = {}
    /\ \/ /\ configuracao = [batchSize |-> 1, maxRetries |-> 2]
          /\ tabela = [i \in Ids |-> IF i = 1 THEN 1 ELSE 0]
       \/ /\ configuracao = [batchSize |-> 1, maxRetries |-> 1]
          /\ tabela = [i \in Ids |-> IF i <= 2 THEN i ELSE 0]
    /\ agora = 0
    /\ escritas = 0
    /\ exec = [r \in Execs |-> ExecLivre]
    /\ iniciadas = 0
    /\ rt = RtParado
    /\ processo = "vivo"
    /\ dc = DcParado

NextProcesso ==
    \/ Sinal
    \/ Vivo /\ Parar
    \/ Vivo /\ \E t \in 1..MaxTarefas : Disparo(t)
    \/ Vivo /\ ExecutarManual
    \/ Vivo /\ \E r \in Execs : ConnectOk(r)
    \/ Vivo /\ \E r \in Execs : ConnectFalha(r)
    \/ Vivo /\ \E r \in Execs : CountOk(r)
    \/ Vivo /\ \E r \in Execs : CountFalha(r)
    \/ Vivo /\ \E r \in Execs : SelectOk(r)
    \/ Vivo /\ \E r \in Execs : SelectFalha(r)
    \/ Vivo /\ \E r \in Execs : DeleteOk(r)
    \/ Vivo /\ \E r \in Execs : DeleteFalha(r)
    \/ Vivo /\ \E r \in Execs : BackoffFim(r)
    \/ Vivo /\ \E r \in Execs : IntervaloFim(r)
    \/ Vivo /\ \E r \in Execs : Fechar(r)

SpecProcesso == InitProcesso /\ [][NextProcesso]_vars

\* ------------------------------------------------------ overlapping firings
\* The started scheduler of InitProcesso whose cron task fires whether or not
\* an earlier firing is still under way.
NextDisparos ==
    \/ \E t \in 1..MaxTarefas : Disparo(t)
    \/ \E r \in Execs : ConnectOk(r)
    \/ \E r \in Execs : ConnectFalha(r)
    \/ \E r \in Execs : CountOk(r)
    \/ \E r \in Execs : CountFalha(r)
    \/ \E r \in Execs : SelectOk(r)
    \/ \E r \in Execs : SelectFalha(r)
    \/ \E r \in Execs : DeleteOk(r)
    \/ \E r \in Execs : DeleteFalha(r)
    \/ \E r \in Execs : BackoffFim(r)
    \/ \E r \in Execs : IntervaloFim(r)
    \/ \E r \in Execs : Fechar(r)

SpecDisparos == InitProcesso /\ [][NextDisparos]_vars

\* ------------------------------------------------- the scheduler on its own
\* A constructed scheduler in any environment: any of the required variables
\* may be absent; iniciar() and parar() are called in any order as days pass.
TodosAmbientes == SUBSET {RequiredVars[i] : i \in DOMAIN RequiredVars}

InitAgendador ==
    /\ Construido
    /\ faltando \in TodosAmbientes
    /\ configuracao = [batchSize |-> 1, maxRetries |-> 1]
    /\ agora = 0
    /\ tabela = [i \in Ids |-> 0]
    /\ escritas = 0
    /\ exec = [r \in Execs |-> ExecLivre]
    /\ iniciadas = 0
    /\ rt = RtParado
    /\ processo = "vivo"
    /\ dc = DcParado

NextAgendador ==
    \/ Iniciar
    \/ Parar
    \/ VerificarSaudeInicial
    \/ Tick

SpecAgendador == InitAgendador /\ [][NextAgendador]_vars

\* ------------------------------------------ calcularDataCorte on its own
\* Calls of calcularDataCorte at one instant `agora` of a leap or a common
\* year, at midnight, at noon or in the last millisecond of any day, with
\* mesesAtras and with mesesAtras + 1.
Anos == {2023, 2024}

Horas == {0, 43200000, 86399999}

Datas ==
    {[ano |-> a, mes |-> m, dia |-> d, ms |-> h] :
        a \in Anos, m \in 0..11, d \in 1..31, h \in Horas}

InitData ==
    /\ Construido
    /\ faltando = {}
    /\ configuracao = [batchSize |-> 1, maxRetries |-> 1]
    /\ agora = 0
    /\ tabela = [i \in Ids |-> 0]
    /\ escritas = 0
    /\ exec = [r \in Execs |-> ExecLivre]
    /\ iniciadas = 0
    /\ rt = RtParado
    /\ processo = "vivo"
    /\ \E d \in Datas :
          /\ d.dia <= DiasNoMes(d.ano, d.mes)
          /\ dc = [DcParado EXCEPT !.agora = d]

ChamarCalcularDataCorte ==
    /\ \E m \in 0..MaxMeses :
          dc' = [dc EXCEPT !.mesesAtras = m,
                           !.dataCorte = CalcularDataCorte(dc.agora, m),
                           !.seguinte = CalcularDataCorte(dc.agora, m + 1)]
    /\ UNCHANGED <<tarefaAgendada, cronAtivas, cronCriadas, estatisticas, saudePendentes,
                   erroInicio, faltando, configuracao, agora, tabela, escritas, exec,
                   iniciadas, rt, processo>>

NextData == ChamarCalcularDataCorte

SpecData == InitData /\ [][NextData]_vars

\* ------------------------------------------- a run among other writers
\* Runs one at a time, as in SpecExec, in batches of one or two rows with a
\* retry, over a table of two expired rows of different age that other
\* clients of the store insert into and update while the run is under way.
InitEscritores ==
    /\ Iniciado
    /\ faltando = {}
    /\ configuracao \in [batchSize : {1, 2}, maxRetries : {2}]
    /\ agora = 0
    /\ tabela = [i \in Ids |-> IF i <= 2 THEN i ELSE 0]
    /\ escritas = 0
    /\ exec = [r \in Execs |-> ExecLivre]
    /\ iniciadas = 0
    /\ rt = RtParado
    /\ processo = "vivo"
    /\ dc = DcParado

NextEscritores ==
    \/ Inserir
    \/ Atualizar
    \/ DisparoSozinho
    \/ ManualSozinho
    \/ \E r \in Execs : ConnectOk(r)
    \/ \E r \in Execs : ConnectFalha(r)
    \/ \E r \in Execs : CountOk(r)
    \/ \E r \in Execs : CountFalha(r)
    \/ \E r \in Execs : SelectOk(r)
    \/ \E r \in Execs : SelectFalha(r)
    \/ \E r \in Execs : DeleteOk(r)
    \/ \E r \in Execs : DeleteFalha(r)
    \/ \E r \in Execs : BackoffFim(r)
    \/ \E r \in Execs : IntervaloFim(r)
    \/ \E r \in Execs : Fechar(r)

SpecEscritores == InitEscritores /\ [][NextEscritores]_vars

\* Firings one at a time in batches of one row with a retry, over a table of one
\* expired row that other clients write to a bounded number of times, where
\* the store call or the timer the run in flight awaits settles: the call
\* resolves or rejects, the timer fires.  One await is pending at most.
InitJusto ==
    /\ Iniciado
    /\ faltando = {}
    /\ configuracao = [batchSize |-> 1, maxRetries |-> 2]
    /\ agora = 0
    /\ tabela = [i \in Ids |-> IF i = 1 THEN 1 ELSE 0]
    /\ escritas = 0
    /\ exec = [r \in Execs |-> ExecLivre]
    /\ iniciadas = 0
    /\ rt = RtParado
    /\ processo = "vivo"
    /\ dc = DcParado

Passo(r) ==
    \/ ConnectOk(r) \/ ConnectFalha(r)
    \/ CountOk(r) \/ CountFalha(r)
    \/ SelectOk(r) \/ SelectFalha(r)
    \/ DeleteOk(r) \/ DeleteFalha(r)
    \/ BackoffFim(r)
    \/ IntervaloFim(r)
    \/ Fechar(r)

Progride == WF_vars(\E r \in Execs : Passo(r))

NextJusto ==
    \/ Inserir
    \/ Atualizar
    \/ DisparoSozinho
    \/ \E r \in Execs : Passo(r)

SpecJusto == InitJusto /\ [][NextJusto]_vars /\ Progride

\* ==================================================================== claims
EmVooAgora == {r \in Execs : EmVoo(exec[r])}

Terminou(r) == exec[r].pc = "fim"

Ceil(n, b) == (n + b - 1) \div b

\* C1 (as the specification states it): at most one cleanup run is in flight
\* at any instant; a trigger that arrives while a run is in flight starts no
\* second run.
C1_SingleFlight == Cardinality(EmVooAgora) <= 1

\* C2 (as the specification states it): every cleanup run that has returned
\* released the store handle exactly once.
C2_FechaUmaVez == \A r \in Execs : Terminou(r) => exec[r].fechamentos = 1

\* C2 (amended): a run releases the store handle exactly once, in the step
\* that returns it, when it acquired the handle, and never when it did not;
\* the release, failing or not, leaves the success flag of the result as the
\* run decided it.
C2_FechaUmaVezSeAdquiriu ==
    [][\A r \in Execs :
          /\ ~Terminou(r)' => exec'[r].fechamentos = 0
          /\ Terminou(r)' => exec'[r].fechamentos = IF exec'[r].pool THEN 1 ELSE 0
          /\ (exec[r].pc = "close" /\ Terminou(r)') =>
                /\ exec'[r].sucesso = exec[r].sucesso
                /\ exec'[r].sucesso \in {"true", "false"}]_vars

\* C2 witness: a run whose batch exhausted its retries has returned a failure,
\* released its handle once, and that release itself failed.
C2_Testemunha ==
    \E r \in Execs :
        /\ Terminou(r) /\ exec[r].pool /\ exec[r].fechamentos = 1
        /\ exec[r].retry.estado = "lancou" /\ exec[r].sucesso = "false"
        /\ exec[r].closeFalhou

\* C3: no error escapes a run: a run that met a failure of the start-up, the
\* store acquisition, the count or a batch whose retries ran out has returned
\* sucesso = false with that error's message, every returned run has a result,
\* and every scheduled firing whose run returned has counted it.
Fatal(e) ==
    \/ e.ultimoErro \in {"TypeError", "ConnectionError", "CountError"}
    \/ e.retry.estado = "lancou"

C3_NenhumErroEscapa ==
    /\ \A r \in Execs :
          /\ Terminou(r) => exec[r].sucesso \in {"true", "false"}
          /\ (Terminou(r) /\ Fatal(exec[r])) =>
                exec[r].sucesso = "false" /\ exec[r].erro = exec[r].ultimoErro
          /\ (Terminou(r) /\ exec[r].retry.estado = "lancou") =>
                exec[r].erro = exec[r].retry.erro
          /\ exec[r].sucesso = "false" => exec[r].erro # "nenhum"
          /\ exec[r].sucesso = "true" => exec[r].erro = "nenhum" /\ ~Fatal(exec[r])
    /\ estatisticas.execucoes = estatisticas.sucessos + estatisticas.falhas
            + Cardinality({r \in EmVooAgora : exec[r].origem = "tarefa"})

\* C3 witness: a scheduled firing whose batch failed on its select and then,
\* on the last attempt, on its delete returned the delete's error and was
\* counted as a failure.
C3_Testemunha ==
    \E r \in Execs :
        /\ Terminou(r) /\ exec[r].origem = "tarefa"
        /\ exec[r].retry.tentativa = 2 /\ exec[r].retry.estado = "lancou"
        /\ exec[r].sucesso = "false" /\ exec[r].erro = "DeleteError"
        /\ estatisticas.falhas >= 1

\* C4: a run that met no store failure and no other writer, over N > 0
\* expired rows with batch size B, did ceil(N/B) deletes, each of B rows but
\* a last one of N mod B rows when that is not zero, and returned
\* sucesso = true with totalDeletados = N.
TamanhoEsperado(n, b, i) == IF i < Ceil(n, b) \/ n % b = 0 THEN b ELSE n % b

C4_LotesExatos ==
    \A r \in Execs :
        (Terminou(r) /\ ~exec[r].houveFalha /\ ~exec[r].interferido /\ exec[r].total > 0) =>
            LET n == exec[r].total
                b == configuracao.batchSize
            IN /\ exec[r].sucesso = "true"
               /\ exec[r].resTotal = n
               /\ Len(exec[r].lotes) = Ceil(n, b)
               /\ \A i \in 1..Len(exec[r].lotes) : exec[r].lotes[i] = TamanhoEsperado(n, b, i)

\* C4 witness: three expired rows in batches of two were deleted as a batch
\* of two and a batch of one.
C4_Testemunha ==
    \E r \in Execs :
        /\ Terminou(r) /\ ~exec[r].houveFalha /\ ~exec[r].interferido
        /\ exec[r].total = 3 /\ configuracao.batchSize = 2
        /\ exec[r].lotes = <<2, 1>> /\ exec[r].resTotal = 3

\* C5: a call whose operation fails k < maxTentativas times and then succeeds
\* returns the value of the successful invocation, has invoked the operation
\* k + 1 times, and has waited k delays, the j-th of delayMs * 2^(j-1); such
\* a call never throws, and a call that returned made no further invocation.
C5_RetrySucesso ==
    LET k == Len(rt.roteiro)
    IN /\ (k < rt.maxTentativas /\ rt.c.estado # "parado") =>
             /\ rt.c.estado # "lancou"
             /\ rt.c.chamadas <= k + 1
       /\ rt.c.estado = "retornou" =>
             /\ k < rt.maxTentativas
             /\ rt.retorno = k + 1
             /\ rt.c.chamadas = k + 1
             /\ rt.c.delays = [j \in 1..k |-> rt.delayMs * 2 ^ (j - 1)]

\* C5 witness: a call with delayMs = 3 whose operation failed twice returned
\* after delays of 3 and 6.
C5_Testemunha ==
    /\ rt.c.estado = "retornou"
    /\ Len(rt.roteiro) = 2 /\ rt.delayMs = 3
    /\ rt.c.delays = <<3, 6>> /\ rt.c.chamadas = 3 /\ rt.retorno = 3

\* C6: a call whose operation always fails invokes it maxTentativas times,
\* never returns, and throws the error of the last invocation after
\* maxTentativas - 1 delays, none of them after the last failure.
C6_RetryEsgotado ==
    LET m == rt.maxTentativas
    IN (rt.c.estado # "parado" /\ Len(rt.roteiro) >= m) =>
          /\ rt.c.estado # "retornou"
          /\ rt.c.chamadas <= m
          /\ Len(rt.c.delays) <= m - 1
          /\ rt.c.estado = "espera" => rt.c.chamadas < m
          /\ rt.c.estado = "lancou" =>
                /\ rt.c.chamadas = m
                /\ rt.c.erro = rt.roteiro[m]
                /\ Len(rt.c.delays) = m - 1

\* C6 witness: three attempts failed, the last with another error than the
\* first two; the call threw the last one after two delays.
C6_Testemunha ==
    /\ rt.c.estado = "lancou"
    /\ rt.maxTentativas = 3
    /\ rt.roteiro = <<"SelectError", "SelectError", "DeleteError">>
    /\ rt.c.erro = "DeleteError" /\ rt.c.chamadas = 3
    /\ rt.c.delays = <<rt.delayMs, 2 * rt.delayMs>>

\* C7: every attempt of a batch starts with nothing selected and deletes the
\* identifiers its own select returned; a run that met transient failures,
\* none of them a delete that removed rows, and no other writer, and returned
\* sucesso = true, left no expired row and reports the rows it removed.
C7_LoteRefeito ==
    \A r \in Execs :
        /\ exec[r].pc \in {"select", "backoff"} => exec[r].ids = {}
        /\ (exec[r].pc = "delete" /\ ~exec[r].interferido) =>
              /\ exec[r].ids # {}
              /\ exec[r].ids \in Selecoes(tabela, configuracao.batchSize)
        /\ (/\ Terminou(r) /\ exec[r].sucesso = "true" /\ exec[r].houveFalha
            /\ exec[r].perdidas = 0 /\ ~exec[r].interferido) =>
              /\ Expirados(tabela) = {}
              /\ exec[r].resTotal = Soma(exec[r].lotes)
              /\ exec[r].resTotal = exec[r].total

\* C7 witness: a run whose delete failed once, removing nothing, deleted its
\* two expired rows all the same.
C7_Testemunha ==
    \E r \in Execs :
        /\ Terminou(r) /\ exec[r].sucesso = "true" /\ exec[r].houveFalha
        /\ exec[r].ultimoErro = "DeleteError" /\ exec[r].perdidas = 0
        /\ exec[r].total = 2 /\ exec[r].resTotal = 2 /\ Expirados(tabela) = {}

\* C8 (as the specification states it): a manual trigger is counted like a
\* scheduled firing: every run started has raised execucoes and set
\* ultimaExecucao, every run returned has raised sucessos or falhas and
\* recomputed proximaExecucao.
C8_ManualContaComoDisparo ==
    /\ estatisticas.execucoes = iniciadas
    /\ iniciadas > 0 => estatisticas.ultimaExecucao # Nulo
    /\ estatisticas.sucessos + estatisticas.falhas = iniciadas - Cardinality(EmVooAgora)
    /\ iniciadas > Cardinality(EmVooAgora) => estatisticas.proximaExecucao # Nulo

\* C9 (as the specification states it): at most one recurring trigger is
\* registered and active, whatever iniciar() and parar() calls were made.
C9_UmGatilho == Cardinality(cronAtivas) <= 1

\* C10 (as the specification states it): while the scheduler is stopped no
\* trigger is active and no firing begins; parar() on a stopped scheduler
\* changes nothing; iniciar() makes the scheduler Running.
C10_AposParar ==
    [][/\ tarefaAgendada' = 0 => cronAtivas' = {}
       /\ tarefaAgendada = 0 => ~(\E t \in 1..MaxTarefas : Disparo(t))
       /\ (Parar /\ tarefaAgendada = 0) => UNCHANGED vars
       /\ (Iniciar /\ Missing(faltando) = <<>>) =>
             (tarefaAgendada' # 0 /\ tarefaAgendada' \in cronAtivas')]_vars

\* C11 (as the specification states it): when the process has exited on a
\* termination signal, parar() has run and no cleanup run was cut short: every
\* run that was in flight when the signal arrived has reached its end.
C11_SinalEsperaExecucao ==
    processo = "encerrado" =>
        /\ tarefaAgendada = 0
        /\ \A r \in Execs : ~EmVoo(exec[r])

\* C12: iniciar() with a required setting absent fails with an error that
\* names every absent setting and nothing else, registers no trigger,
\* schedules no health check and leaves the statistics as they were; with
\* every required setting present it throws nothing, registers a trigger it
\* holds, schedules the health check and sets proximaExecucao.
C12_IniciarValida ==
    [][Iniciar =>
          IF faltando # {}
          THEN /\ \A v \in faltando : \E i \in DOMAIN erroInicio' : erroInicio'[i] = v
               /\ \A i \in DOMAIN erroInicio' : erroInicio'[i] \in faltando
               /\ UNCHANGED <<tarefaAgendada, cronAtivas, cronCriadas, saudePendentes,
                              estatisticas>>
          ELSE /\ erroInicio' = <<>>
               /\ tarefaAgendada' \in cronAtivas' \ cronAtivas
               /\ saudePendentes' = saudePendentes + 1
               /\ estatisticas'.proximaExecucao = agora + 1
               /\ estatisticas' = [estatisticas EXCEPT !.proximaExecucao = agora + 1]]_vars

\* C12 witness: iniciar() was called a day after construction with three
\* settings absent; the error names the three and the scheduler is untouched.
C12_Testemunha ==
    /\ faltando = {"DB_USER", "TABELA", "COLUNA_DATA"}
    /\ erroInicio = <<"DB_USER", "TABELA", "COLUNA_DATA">>
    /\ agora = 1
    /\ cronAtivas = {} /\ tarefaAgendada = 0 /\ saudePendentes = 0
    /\ estatisticas = EstatisticasIniciais

\* instants in the order of time
NaoDepois(a, b) ==
    \/ a.ano < b.ano
    \/ a.ano = b.ano /\ a.mes < b.mes
    \/ a.ano = b.ano /\ a.mes = b.mes /\ a.dia < b.dia
    \/ a.ano = b.ano /\ a.mes = b.mes /\ a.dia = b.dia /\ a.ms <= b.ms

\* C13: calcularDataCorte returns day 1 at 00:00:00.000 of a month, one more
\* month back never gives a later cutoff, and 2024-06-15 with 3 months gives
\* 2024-03-01T00:00:00.
C13_PrimeiroDiaMonotono ==
    dc.mesesAtras # Nulo =>
        /\ dc.dataCorte.dia = 1 /\ dc.dataCorte.ms = 0
        /\ dc.dataCorte.mes \in 0..11
        /\ NaoDepois(dc.seguinte, dc.dataCorte)
        /\ NaoDepois(dc.dataCorte, dc.agora)
        /\ (dc.agora.ano = 2024 /\ dc.agora.mes = 5 /\ dc.agora.dia = 15 /\ dc.mesesAtras = 3)
              => dc.dataCorte = [ano |-> 2024, mes |-> 2, dia |-> 1, ms |-> 0]

\* C13 witness: the cutoff of noon of 2024-06-15 with 3 months is 2024-03-01.
C13_Testemunha ==
    /\ dc.agora = [ano |-> 2024, mes |-> 5, dia |-> 15, ms |-> 43200000]
    /\ dc.mesesAtras = 3
    /\ dc.dataCorte = [ano |-> 2024, mes |-> 2, dia |-> 1, ms |-> 0]

\* C14 (as the specification states it): the cutoff is the first instant of
\* the month mesesAtras months before the month of `agora`, whatever the day
\* of the month of `agora`.
C14_IndependeDoDia ==
    dc.mesesAtras # Nulo =>
        LET t == dc.agora.ano * 12 + dc.agora.mes - dc.mesesAtras
        IN dc.dataCorte = [ano |-> t \div 12, mes |-> t % 12, dia |-> 1, ms |-> 0]

\* C15: a run whose count found no expired row returns sucesso = true with
\* totalDeletados = 0 and tempoExecucao = 0 and has issued no select and no
\* delete; a run started right after a successful run, over the data that run
\* left, finds nothing to delete.
C15_NadaALimpar ==
    \A r \in Execs :
        /\ exec[r].total = 0 =>
              /\ exec[r].pc \in {"livre", "connect", "count", "close", "fim"}
              /\ exec[r].nSelect = 0 /\ exec[r].lotes = <<>> /\ exec[r].perdidas = 0
        /\ (exec[r].total = 0 /\ exec[r].sucesso = "true") =>
              exec[r].resTotal = 0 /\ exec[r].resTempo = 0
        /\ exec[r].aposSucesso =>
              /\ exec[r].total = 0
              /\ exec[r].nSelect = 0 /\ exec[r].lotes = <<>> /\ exec[r].perdidas = 0
              /\ exec[r].sucesso = "true" => exec[r].resTotal = 0

\* C15 witness: a firing that followed a successful firing, which had deleted
\* the oldest row of a table that keeps a fresh one, returned at once with
\* nothing deleted.
C15_Testemunha ==
    \E r \in Execs :
        /\ Terminou(r) /\ exec[r].aposSucesso /\ exec[r].pool
        /\ exec[r].sucesso = "true" /\ exec[r].resTotal = 0 /\ exec[r].resTempo = 0
        /\ exec[r].nSelect = 0
        /\ tabela[1] = 0 /\ tabela[MaxLinhas] = DataCorte
        /\ estatisticas.sucessos = 2

\* C16: the identifiers a select returns are those of at most batchSize rows
\* that are expired when it runs; they stay as selected until the delete,
\* whatever other clients write meanwhile; the delete removes rows of exactly
\* those identifiers (all of them that still exist when it succeeds, whatever
\* their timestamp has become) and changes no other row.
C16_LoteInstantaneo ==
    [][\A r \in Execs :
          /\ (exec[r].pc = "select" /\ exec'[r].pc = "delete") =>
                /\ exec'[r].ids # {}
                /\ exec'[r].ids \subseteq Expirados(tabela)
                /\ Cardinality(exec'[r].ids) <= configuracao.batchSize
          /\ (exec[r].pc = "delete" /\ exec'[r].pc = "delete") => exec'[r].ids = exec[r].ids
          /\ (exec[r].pc = "delete" /\ exec'[r].pc # "delete") =>
                /\ \A i \in Ids \ exec[r].ids : tabela'[i] = tabela[i]
                /\ \A i \in exec[r].ids : tabela'[i] \in {0, tabela[i]}
                /\ exec'[r].retry.estado = "retornou" =>
                      \A i \in exec[r].ids : tabela'[i] = 0]_vars

\* C16 witness: another client updated a row between the select that picked
\* it and the delete; the delete removed the two rows selected all the same,
\* and the run returned.
C16_Testemunha ==
    \E r \in Execs :
        /\ Terminou(r) /\ exec[r].escritaNoLote /\ exec[r].sucesso = "true"
        /\ ~exec[r].houveFalha /\ exec[r].lotes = <<2>>
        /\ escritas = 1
        /\ \A i \in Ids : tabela[i] = 0

\* C17 (as the specification states it): a batch that deleted batchSize rows
\* is followed by the inter-batch pause before the next batch's select: no
\* select of a run is issued in the step in which its delete returned.
C17_PausaEntreLotes ==
    [][\A r \in Execs : ~(exec[r].pc = "delete" /\ exec'[r].pc = "select")]_vars

\* C18: with no other writer, the rows a run is about to delete are no older
\* than any row it has deleted in an earlier batch, and wherever the run
\* stands or has stopped no expired row left in the table is older than a row
\* the run has deleted.
C18_MaisAntigosPrimeiro ==
    \A r \in Execs :
        ~exec[r].interferido =>
            /\ exec[r].pc = "delete" =>
                  \A i \in exec[r].ids : tabela[i] >= exec[r].maisNovoApagado
            /\ \A i \in Expirados(tabela) : tabela[i] >= exec[r].maisNovoApagado
            /\ exec[r].lotes # <<>> => exec[r].maisNovoApagado >= 1

\* C18 witness: a run over expired rows of two ages deleted one of the older
\* age, then failed for good; an expired row of the later age is left.
C18_Testemunha ==
    \E r \in Execs :
        /\ Terminou(r) /\ exec[r].sucesso = "false" /\ exec[r].retry.estado = "lancou"
        /\ exec[r].lotes = <<1>> /\ exec[r].maisNovoApagado = 1
        /\ \E i \in Expirados(tabela) : tabela[i] = 2
        /\ \A i \in Expirados(tabela) : tabela[i] = 2

\* the runs in flight among the run records `ex`
EmVooDe(ex) == {r \in Execs : EmVoo(ex[r])}

\* C19: execucoes, sucessos and falhas never decrease; the step that starts
\* a firing raises execucoes by one and nothing else, the step in which a
\* firing returns raises exactly one of sucessos and falhas by one, no other
\* step touches the counters; so execucoes = sucessos + falhas + the firings
\* in flight in every state, however the firings overlap.
C19_ContadoresConsistentes ==
    [][LET iniciou == EmVooDe(exec') \ EmVooDe(exec)
           retornou == EmVooDe(exec) \ EmVooDe(exec')
           novas == iniciadas' - iniciadas
           d(campo) == estatisticas'[campo] - estatisticas[campo]
       IN /\ d("execucoes") = novas
          /\ novas \in {0, 1}
          /\ d("sucessos") \in {0, 1} /\ d("falhas") \in {0, 1}
          /\ d("sucessos") + d("falhas") = Cardinality(retornou) + novas - Cardinality(iniciou)
          /\ estatisticas'.execucoes = estatisticas'.sucessos + estatisticas'.falhas
                                         + Cardinality(EmVooDe(exec'))]_vars

\* C19 witness: two firings overlapped; one has returned a success, the other
\* a failure, and none is in flight.
C19_Testemunha ==
    /\ estatisticas.execucoes = 2 /\ estatisticas.sucessos = 1 /\ estatisticas.falhas = 1
    /\ \A r \in Execs : Terminou(r)

\* C20: every run that was started returns: when the store calls settle and
\* the other clients stop writing, a run in flight eventually has a result,
\* sucesso true or false, with the handle it acquired released.
C20_TodaExecucaoTermina ==
    \A r \in Execs :
        EmVoo(exec[r]) ~>
            (/\ Terminou(r)
             /\ exec[r].sucesso \in {"true", "false"}
             /\ exec[r].pool => exec[r].fechamentos = 1)

\* C20 witness: a run that another client wrote under went through two
\* batches and a failed attempt and returned with its handle released.
C20_Testemunha ==
    \E r \in Execs :
        /\ Terminou(r) /\ exec[r].interferido /\ escritas = MaxEscritas
        /\ Len(exec[r].lotes) >= 2 /\ exec[r].houveFalha
        /\ exec[r].fechamentos = 1

====
